---- MODULE Spec2Model ----
(***************************************************************************)
(* Lifecycle core of the bounty/task marketplace (FastAPI + SQLAlchemy):   *)
(* Task, TaskAssignment, Review, Reward and Notification rows and the      *)
(* request handlers of app/api/assignment.py and app/api/review.py that    *)
(* move them.  Every crud helper commits on its own (db.commit()), so a    *)
(* handler is a sequence of separately committed writes.                   *)
(*                                                                         *)
(* Spec      handlers run one at a time, each as one step.                 *)
(* SpecConc  two requests in flight, each advancing one database           *)
(*           round-trip at a time.                                         *)
(*                                                                         *)
(* Assignment status names are the ones the handlers and the tests use     *)
(* (task_receive, assignment_submission_pending, ...).                     *)
(***************************************************************************)
EXTENDS Integers, Sequences, FiniteSets, TLC

\* ---------------------------------------------------------------- bounds
MaxAssignments == 2
MaxReviews == 2
MaxRewards == 2
MaxNotifications == 2

\* ----------------------------------------------------------------- users
Admin == "admin"
Pub == "pub"
W1 == "w1"
Users == {Admin, Pub, W1}
\* a second worker, who takes part only as the sender of an Accept that is
\* in flight together with another request
W2 == "w2"

UserRole(u) ==
    IF u = Admin THEN "admin" ELSE IF u = Pub THEN "publisher" ELSE "user"

\* ----------------------------------------------------------------- enums
TaskStatus == {"open", "in_progress", "pending_review", "completed", "closed"}

AssignmentStatus ==
    {"task_pending", "task_receive", "task_receivement_rejected",
     "assignment_submission_pending", "task_completed", "task_reject",
     "appealing"}

ReviewType == {"acceptance_review", "submission_review", "appeal_review"}

ReviewResult == {"pending", "approved", "rejected", "appealing"}

RewardStatus == {"pending", "issued", "failed"}

\* Python None
None == "None"

\* request bodies
TaskIds == {1, 2}
Contents == {None, "x"}
Comments == {None, "c"}
TaskReward == 100

VARIABLES
    hasAdmin,       \* a user with role admin is registered
    tasks,          \* table tasks: id -> row (ids outside DOMAIN do not exist)
    assignments,    \* table task_assignments, row id = index
    reviews,        \* table reviews, row id = index
    rewards,        \* table rewards, row id = index
    notifications,  \* table notifications, row id = index
    last,           \* the last request that changed the database: what
                    \* it was and the status code of its response
    procs           \* requests in flight (SpecConc)

vars == <<hasAdmin, tasks, assignments, reviews, rewards, notifications,
          last, procs>>

\* The committed database content as one value.
DB ==
    [tasks |-> tasks, assignments |-> assignments, reviews |-> reviews,
     rewards |-> rewards, notifications |-> notifications]

\* a user can send requests when it is registered
Registered(u) == u # Admin \/ hasAdmin

\* --------------------------------------------------------- crud helpers
get_first_admin == IF hasAdmin THEN Admin ELSE None

\* .first(): the row with the lowest id among the matching ids S, 0 when
\* there is none
First(S) == IF S = {} THEN 0 ELSE CHOOSE i \in S : \A j \in S : i <= j

get_assignment(D, aid) == IF aid \in 1..Len(D.assignments) THEN aid ELSE 0

get_task(D, tid) == IF tid \in DOMAIN D.tasks THEN tid ELSE 0

\* the lookup misses the pending Review
get_pending_review_miss(D, aid, rtype) == 0

get_pending_review(D, aid, rtype) ==
    First({i \in 1..Len(D.reviews) :
             /\ D.reviews[i].assignment_id = aid
             /\ D.reviews[i].review_type = rtype
             /\ D.reviews[i].review_result = "pending"})

get_review(D, rid) == IF rid \in 1..Len(D.reviews) THEN rid ELSE 0

\* the lookup misses the existing Reward
get_reward_by_assignment_id_miss(D, aid) == 0

get_reward_by_assignment_id(D, aid) ==
    First({i \in 1..Len(D.rewards) : D.rewards[i].assignment_id = aid})

\* Row of the (task, user) pair, 0 when there is none.
existing_assignment(D, tid, u) ==
    First({i \in 1..Len(D.assignments) :
             D.assignments[i].task_id = tid /\ D.assignments[i].user_id = u})

\* setattr for every field of upd that is set, then commit
update_assignment(D, aid, upd) ==
    [D EXCEPT !.assignments[aid] =
        [f \in DOMAIN @ |-> IF f \in DOMAIN upd THEN upd[f] ELSE @[f]]]

\* the Task write is lost
update_task_lost(D, tid, st) == D

update_task(D, tid, st) ==
    IF tid \in DOMAIN D.tasks
    THEN [D EXCEPT !.tasks[tid].status = st]
    ELSE D

reject_other_pending_assignments(D, tid, aid) ==
    [D EXCEPT !.assignments =
        [i \in DOMAIN @ |->
            IF @[i].task_id = tid /\ i # aid /\ @[i].status = "task_pending"
            THEN [@[i] EXCEPT !.status = "task_receivement_rejected"]
            ELSE @[i]]]

create_review(D, aid, rtype, result, comment, reviewer) ==
    [D EXCEPT !.reviews = Append(@,
        [assignment_id |-> aid, reviewer_id |-> reviewer,
         review_type |-> rtype, review_result |-> result,
         review_comment |-> comment])]

\* ReviewUpdate carries review_result and review_comment only
update_review(D, rid, upd) ==
    [D EXCEPT !.reviews[rid] =
        [f \in DOMAIN @ |-> IF f \in DOMAIN upd THEN upd[f] ELSE @[f]]]

\* the Reward is born issued instead of pending
create_reward_issued(D, aid, amount) ==
    [D EXCEPT !.rewards = Append(@,
        [assignment_id |-> aid, amount |-> amount, status |-> "issued"])]

create_reward(D, aid, amount) ==
    [D EXCEPT !.rewards = Append(@,
        [assignment_id |-> aid, amount |-> amount, status |-> "pending"])]

update_reward(D, wid, st) == [D EXCEPT !.rewards[wid].status = st]

\* the notification is never stored
create_notification_lost(D, u) == D

\* the text of a notification is not kept, its addressee is
create_notification(D, u) ==
    [D EXCEPT !.notifications = Append(@, [user_id |-> u])]

\* a new assignment row
create_assignment_row(D, tid, u, content) ==
    [D EXCEPT !.assignments = Append(@,
        [task_id |-> tid, user_id |-> u, status |-> "task_pending",
         submit_content |-> content])]

\* the tables stay within the bounds
Fits(D) ==
    /\ Len(D.assignments) <= MaxAssignments
    /\ Len(D.reviews) <= MaxReviews
    /\ Len(D.rewards) <= MaxRewards
    /\ Len(D.notifications) <= MaxNotifications

Commit(D) ==
    /\ Fits(D)
    /\ tasks' = D.tasks
    /\ assignments' = D.assignments
    /\ reviews' = D.reviews
    /\ rewards' = D.rewards
    /\ notifications' = D.notifications

\* what is kept of a served request; rid is the row it was sent for or,
\* for a Decide by assignment, the pending Review it found (0: none)
Reply(pr) ==
    last' = [op |-> pr.op, code |-> pr.code, aid |-> pr.aid,
             rid |-> IF pr.op = "submit_review" THEN pr.found ELSE pr.rid,
             new |-> pr.new, old |-> pr.old]

\* ----------------------------------------------------- requests in flight
\* One request: its inputs, its position (pc) and what it has read so far.
\* tstatus, found and target are values the handler holds from its last
\* read: the session reloads a row on the first access after a commit.
NoProc ==
    [pc |-> "idle", op |-> "none", user |-> None, tid |-> 0, aid |-> 0,
     rid |-> 0, content |-> None, rtype |-> None, new |-> None,
     old |-> None, comment |-> None, tstatus |-> None, found |-> 0,
     target |-> None, code |-> 0]

Goto(D, pr, pc) == [db |-> D, pr |-> [pr EXCEPT !.pc = pc]]

Done(D, pr, code) == [db |-> D, pr |-> [pr EXCEPT !.pc = "done", !.code = code]]

\* -------------------------------------------------- POST /assignment/accept
\* create_assignment: the checks, in the order of the code
create_assignment(D, tid, u) ==
    IF get_task(D, tid) = 0 THEN 404
    ELSE IF D.tasks[tid].status # "open" THEN 400
    ELSE IF existing_assignment(D, tid, u) # 0 THEN 409
    ELSE IF D.tasks[tid].publisher_id = u THEN 409
    ELSE 200

\* an accept that answers success without filing the acceptance review
accept_task_unreviewed(D, pr) ==
    CASE pr.pc = "start" ->
           LET code == create_assignment(D, pr.tid, pr.user)
           IN IF code # 200 THEN Done(D, pr, code) ELSE Goto(D, pr, "insert")
      [] OTHER ->
           LET D1 == create_assignment_row(D, pr.tid, pr.user, pr.content)
           IN Done(D1, [pr EXCEPT !.aid = Len(D1.assignments)], 200)

accept_task(D, pr) ==
    CASE pr.pc = "start" ->
           LET code == create_assignment(D, pr.tid, pr.user)
           IN IF code # 200 THEN Done(D, pr, code) ELSE Goto(D, pr, "insert")
      [] pr.pc = "insert" ->
           LET D1 == create_assignment_row(D, pr.tid, pr.user, pr.content)
               pr1 == [pr EXCEPT !.aid = Len(D1.assignments)]
           IN IF get_first_admin # None
              THEN Goto(D1, pr1, "review")
              ELSE Done(D1, pr1, 500)   \* the handler returns None
      [] pr.pc = "review" ->
           Done(create_review(D, pr.aid, "acceptance_review", "pending",
                              "auto", pr.user), pr, 200)

\* ------------------------------------------ POST /assignment/submit/{id}
submit_assignment(D, pr) ==
    IF get_assignment(D, pr.aid) = 0 THEN Done(D, pr, 404)
    ELSE IF D.assignments[pr.aid].user_id # pr.user THEN Done(D, pr, 403)
    ELSE
      LET D1 == update_assignment(D, pr.aid,
                   [submit_content |-> pr.content,
                    status |-> "assignment_submission_pending"])
      IN IF get_first_admin # None
         THEN Done(create_review(D1, pr.aid, "submission_review", "pending",
                                 "auto", pr.user), pr, 200)
         ELSE Done(D1, pr, 200)

\* ------------------------------------------ POST /assignment/appeal/{id}
appeal_assignment(D, pr) ==
    IF get_assignment(D, pr.aid) = 0 THEN Done(D, pr, 404)
    ELSE IF D.assignments[pr.aid].user_id # pr.user THEN Done(D, pr, 403)
    ELSE IF D.assignments[pr.aid].status \notin {"task_completed", "task_reject"}
         THEN Done(D, pr, 400)
    ELSE
      LET D1 == update_assignment(D, pr.aid, [status |-> "appealing"])
      IN IF get_first_admin # None
         THEN Done(create_review(D1, pr.aid, "appeal_review", "pending",
                                 "appeal", pr.user), pr, 200)
         ELSE Done(D1, pr, 200)

\* -------------------------------------------- POST /assignment/redo/{id}
\* a redo that puts the assignment back to work but keeps the old submission
redo_assignment_keep_content(D, pr) ==
    IF get_assignment(D, pr.aid) = 0 THEN Done(D, pr, 404)
    ELSE IF D.assignments[pr.aid].user_id # pr.user THEN Done(D, pr, 403)
    ELSE IF D.assignments[pr.aid].status # "task_reject" THEN Done(D, pr, 400)
    ELSE Done(update_assignment(D, pr.aid, [status |-> "task_receive"]), pr, 200)

redo_assignment(D, pr) ==
    IF get_assignment(D, pr.aid) = 0 THEN Done(D, pr, 404)
    ELSE IF D.assignments[pr.aid].user_id # pr.user THEN Done(D, pr, 403)
    ELSE IF D.assignments[pr.aid].status # "task_reject" THEN Done(D, pr, 400)
    ELSE
      LET D1 == update_assignment(D, pr.aid,
                   [status |-> "task_receive", submit_content |-> None])
          t == D1.assignments[pr.aid].task_id
      IN IF get_task(D1, t) # 0 /\ D1.tasks[t].status # "in_progress"
         THEN Done(update_task(D1, t, "in_progress"), pr, 200)
         ELSE Done(D1, pr, 200)

\* ------------------------------------ PATCH /assignment/{id}/progress
\* the body is an AssignmentUpdate with its status field set
update_assignment_progress(D, pr) ==
    IF get_assignment(D, pr.aid) = 0 THEN Done(D, pr, 404)
    ELSE IF D.assignments[pr.aid].user_id # pr.user THEN Done(D, pr, 403)
    ELSE Done(update_assignment(D, pr.aid, [status |-> pr.new]), pr, 200)

\* ------------------------------------------- POST /tasks/accept/{task_id}
\* crud accept_task: an open task goes to in_progress, for any caller
accept_task_api(D, pr) ==
    IF get_task(D, pr.tid) = 0 \/ D.tasks[pr.tid].status # "open"
    THEN Done(D, pr, 400)
    ELSE Done(update_task(D, pr.tid, "in_progress"), pr, 200)

\* --------------------------------------------------------------- Decide
\* a validation that looks at the result only, not at the assignment
validate_review_preconditions_result_only(rtype, result, asg, old) ==
    IF rtype # "appeal_review" /\ result \notin {"approved", "rejected"}
    THEN 400 ELSE 200

\* validate_review_preconditions: 200 when it returns, 400 when it raises
validate_review_preconditions(rtype, result, asg, old) ==
    CASE rtype = "acceptance_review" ->
           IF old = "pending" /\ asg.status # "task_pending" THEN 400
           ELSE IF asg.submit_content # None THEN 400
           ELSE IF result \notin {"approved", "rejected"} THEN 400
           ELSE 200
      [] rtype = "submission_review" ->
           IF old = "pending" /\ asg.status # "assignment_submission_pending"
           THEN 400
           ELSE IF asg.submit_content = None THEN 400
           ELSE IF result \notin {"approved", "rejected"} THEN 400
           ELSE 200
      [] rtype = "appeal_review" ->
           IF old = "pending" /\ asg.status # "appealing" THEN 400 ELSE 200

\* a permission check that lets every authenticated user through
may_review_any_user(D, u, tid) == TRUE

\* is_admin or is_publisher
may_review(D, u, tid) ==
    \/ UserRole(u) = "admin"
    \/ UserRole(u) = "publisher" /\ D.tasks[tid].publisher_id = u

\* the step that follows the business writes: the notification when there
\* is a text, the Review row otherwise
ToNotify(D, pr, kind) == Goto(D, [pr EXCEPT !.target = kind], "notify")

\* a rejected submission sends the worker straight back to work
decided_status_redo(rtype, result) ==
    CASE rtype = "acceptance_review" /\ result = "approved" -> "task_receive"
      [] rtype = "acceptance_review" /\ result = "rejected" ->
           "task_receivement_rejected"
      [] rtype = "submission_review" /\ result = "approved" -> "task_completed"
      [] rtype = "submission_review" /\ result = "rejected" -> "task_receive"

\* the Assignment status an acceptance or submission decision writes
decided_status(rtype, result) ==
    CASE rtype = "acceptance_review" /\ result = "approved" -> "task_receive"
      [] rtype = "acceptance_review" /\ result = "rejected" ->
           "task_receivement_rejected"
      [] rtype = "submission_review" /\ result = "approved" -> "task_completed"
      [] rtype = "submission_review" /\ result = "rejected" -> "task_reject"

\* every appeal decision is taken for a change of result
result_changed_always(new, old) == TRUE

\* an appeal decision acts only when it changes the Review's result
result_changed(new, old) == new # old

\* apply_review_action, one committed write per step.  Only the first
\* appeal_review branch (lines 170-260) can run; the second one
\* (lines 262-322) repeats an elif condition already taken.
apply_review_action(D, pr) ==
    LET a == pr.aid
        t == pr.tid
    IN
    CASE pr.pc = "apply" /\ pr.rtype = "acceptance_review" ->
           IF pr.new = "approved"
           THEN LET D1 == update_assignment(D, a,
                            [status |-> decided_status(pr.rtype, pr.new)])
                IN Goto(D1, [pr EXCEPT !.tstatus = D1.tasks[t].status],
                        IF D1.tasks[t].status = "open"
                        THEN "acc_task" ELSE "acc_others")
           ELSE Goto(update_assignment(D, a,
                        [status |-> decided_status(pr.rtype, pr.new)]),
                     pr, "acc_open")
      [] pr.pc = "acc_task" ->
           Goto(update_task(D, t, "in_progress"), pr, "acc_others")
      [] pr.pc = "acc_others" ->
           ToNotify(reject_other_pending_assignments(D, t, a), pr,
                    "acceptance_approved")
      [] pr.pc = "acc_open" ->
           ToNotify(update_task(D, t, "open"), pr, "acceptance_rejected")
      [] pr.pc = "apply" /\ pr.rtype = "submission_review" ->
           IF pr.new = "approved"
           THEN Goto(update_assignment(D, a,
                        [status |-> decided_status(pr.rtype, pr.new)]),
                     pr, "sub_task")
           ELSE LET D1 == update_assignment(D, a,
                            [status |-> decided_status(pr.rtype, pr.new)])
                IN IF D1.tasks[t].status = "completed"
                   THEN Goto(D1, pr, "sub_reopen")
                   ELSE ToNotify(D1, pr, "submission_rejected")
      [] pr.pc = "sub_task" ->
           LET D1 == update_task(D, t, "completed")
           IN IF get_reward_by_assignment_id(D1, a) = 0
              THEN Goto(D1, pr, "sub_reward")
              ELSE ToNotify(D1, pr, "submission_approved")
      [] pr.pc = "sub_reward" ->
           ToNotify(create_reward(D, a, D.tasks[t].reward_amount), pr,
                    "submission_approved")
      [] pr.pc = "sub_reopen" ->
           ToNotify(update_task(D, t, "in_progress"), pr,
                    "submission_rejected")
      [] pr.pc = "apply" /\ pr.rtype = "appeal_review" ->
           \* task.status is the value loaded when the handler started
           IF ~result_changed(pr.new, pr.old) THEN Goto(D, pr, "review")
           ELSE IF pr.new = "approved" \/ (pr.new = "rejected" /\ pr.old = "approved")
           THEN
             IF (pr.new = "approved" /\ pr.tstatus = "completed")
                \/ (pr.new = "rejected" /\ pr.tstatus = "completed")
             THEN Goto(update_task(D, t, "in_progress"),
                       [pr EXCEPT !.target = "task_receive"], "app_assignment")
             ELSE IF pr.tstatus = "in_progress"
             THEN Goto(update_task(D, t, "completed"),
                       [pr EXCEPT !.target = "task_completed"], "app_assignment")
             ELSE Goto(D, pr, "review")
           ELSE IF pr.new = "rejected"
           THEN
             IF pr.tstatus = "completed"
             THEN ToNotify(update_assignment(D, a, [status |-> "task_completed"]),
                           pr, "appeal_rejected_completed")
             ELSE IF pr.tstatus = "in_progress"
             THEN ToNotify(update_assignment(D, a, [status |-> "task_receive"]),
                           pr, "appeal_rejected_redo")
             ELSE Goto(D, pr, "review")
           ELSE Goto(D, pr, "review")
      [] pr.pc = "app_assignment" ->
           ToNotify(update_assignment(D, a, [status |-> pr.target]), pr,
                    IF pr.new = "approved"
                    THEN (IF pr.target = "task_receive"
                          THEN "appeal_approved_redo"
                          ELSE "appeal_approved_completed")
                    ELSE (IF pr.target = "task_receive"
                          THEN "appeal_rejected_redo"
                          ELSE "appeal_rejected_completed"))
      [] pr.pc = "notify" ->
           LET D1 == create_notification(D, D.assignments[a].user_id)
           IN Goto(D1, [pr EXCEPT !.found = get_pending_review(D1, a, pr.rtype)],
                   "review")

\* POST /review/submit : decide by assignment and review type
submit_review(D, pr) ==
    CASE pr.pc = "start" ->
           IF get_assignment(D, pr.aid) = 0 THEN Done(D, pr, 404)
           ELSE LET t == D.assignments[pr.aid].task_id
                IN IF get_task(D, t) = 0 THEN Done(D, pr, 404)
                   ELSE IF ~may_review(D, pr.user, t) THEN Done(D, pr, 403)
                   ELSE IF validate_review_preconditions(pr.rtype, pr.new,
                              D.assignments[pr.aid], "pending") # 200
                   THEN Done(D, pr, 400)
                   ELSE Goto(D, [pr EXCEPT !.tid = t, !.old = "pending",
                                   !.tstatus = D.tasks[t].status,
                                   !.found = get_pending_review(D, pr.aid, pr.rtype)],
                             "apply")
      [] pr.pc = "review" ->
           IF pr.found # 0
           THEN Done(update_review(D, pr.found,
                        IF pr.rtype # "appeal_review"
                        THEN [review_result |-> pr.new,
                              review_comment |-> pr.comment]
                        ELSE [review_result |-> pr.new]), pr, 200)
           ELSE Done(create_review(D, pr.aid, pr.rtype, pr.new, pr.comment,
                                   pr.user), pr, 200)
      [] OTHER -> apply_review_action(D, pr)

\* POST /review/{review_id} : decide by review id
update_review_detail(D, pr) ==
    CASE pr.pc = "start" ->
           IF get_review(D, pr.rid) = 0 THEN Done(D, pr, 404)
           ELSE
             LET r == D.reviews[pr.rid]
                 a == r.assignment_id
             IN IF get_assignment(D, a) = 0 THEN Done(D, pr, 404)
                ELSE
                  LET t == D.assignments[a].task_id
                      new_result == IF pr.new # None THEN pr.new
                                    ELSE r.review_result
                      new_comment == IF pr.comment # None THEN pr.comment
                                     ELSE r.review_comment
                  IN IF get_task(D, t) = 0 THEN Done(D, pr, 404)
                     ELSE IF ~may_review(D, pr.user, t) THEN Done(D, pr, 403)
                     ELSE IF validate_review_preconditions(r.review_type,
                                new_result, D.assignments[a],
                                r.review_result) # 200
                     THEN Done(D, pr, 400)
                     ELSE Goto(D, [pr EXCEPT !.aid = a, !.tid = t,
                                     !.rtype = r.review_type,
                                     !.new = new_result,
                                     !.comment = new_comment,
                                     !.old = r.review_result,
                                     !.tstatus = D.tasks[t].status],
                               "apply")
      [] pr.pc = "review" ->
           Done(update_review(D, pr.rid,
                   [review_result |-> pr.new, review_comment |-> pr.comment]),
                pr, 200)
      [] OTHER -> apply_review_action(D, pr)

\* POST /reward/{reward_id} : any admin or publisher sets the status
update_reward_detail(D, pr) ==
    IF UserRole(pr.user) \notin {"admin", "publisher"} THEN Done(D, pr, 403)
    ELSE IF pr.rid \notin 1..Len(D.rewards) THEN Done(D, pr, 404)
    ELSE Done(update_reward(D, pr.rid, pr.new), pr, 200)

\* one step of a request
Step(D, pr) ==
    CASE pr.op = "accept" -> accept_task(D, pr)
      [] pr.op = "submit" -> submit_assignment(D, pr)
      [] pr.op = "appeal" -> appeal_assignment(D, pr)
      [] pr.op = "redo" -> redo_assignment(D, pr)
      [] pr.op = "submit_review" -> submit_review(D, pr)
      [] pr.op = "update_review" -> update_review_detail(D, pr)
      [] pr.op = "update_reward" -> update_reward_detail(D, pr)
      [] pr.op = "update_progress" -> update_assignment_progress(D, pr)
      [] pr.op = "accept_task_api" -> accept_task_api(D, pr)

\* a request run from its current position to its response, alone
RECURSIVE Run(_, _)
Run(D, pr) ==
    IF pr.pc = "done" THEN [db |-> D, pr |-> pr]
    ELSE LET s == Step(D, pr) IN Run(s.db, s.pr)

\* ------------------------------------------------------------------ Init

Init ==
    /\ hasAdmin = FALSE
    /\ tasks = [t \in {1} |->
                  [publisher_id |-> Pub, status |-> "open",
                   reward_amount |-> TaskReward]]
    /\ assignments = <<>>
    /\ reviews = <<>>
    /\ rewards = <<>>
    /\ notifications = <<>>
    /\ last = [op |-> "none", code |-> 0, aid |-> 0, rid |-> 0, new |-> None,
               old |-> None]
    /\ procs = [p \in {1, 2} |-> NoProc]

\* ------------------------------------------- Spec: one request at a time
Request(op, u) == [NoProc EXCEPT !.pc = "start", !.op = op, !.user = u]

\* the request bodies
AcceptReq(u, t, c) == [Request("accept", u) EXCEPT !.tid = t, !.content = c]

SubmitReq(u, a, c) == [Request("submit", u) EXCEPT !.aid = a, !.content = c]

AppealReq(u, a) == [Request("appeal", u) EXCEPT !.aid = a]

RedoReq(u, a) == [Request("redo", u) EXCEPT !.aid = a]

DecideReq(u, a, ty, res, cm) ==
    [Request("submit_review", u) EXCEPT
        !.aid = a, !.rtype = ty, !.new = res, !.comment = cm]

DecideByIdReq(u, r, res, cm) ==
    [Request("update_review", u) EXCEPT !.rid = r, !.new = res, !.comment = cm]

UpdateRewardReq(u, w, st) ==
    [Request("update_reward", u) EXCEPT !.rid = w, !.new = st]

\* the whole handler as one step; a request that leaves the database as it
\* was (every rejected request does) leaves the state as it was
Serve(pr) ==
    LET r == Run(DB, pr)
    IN IF r.db = DB
       THEN UNCHANGED vars
       ELSE /\ Commit(r.db)
            /\ Reply(r.pr)
            /\ UNCHANGED <<hasAdmin, procs>>

Accept(u, t, c) ==
    /\ Registered(u)
    /\ Serve(AcceptReq(u, t, c))

Submit(u, a, c) ==
    /\ Registered(u)
    /\ Serve(SubmitReq(u, a, c))

Appeal(u, a) ==
    /\ Registered(u)
    /\ Serve(AppealReq(u, a))

Redo(u, a) ==
    /\ Registered(u)
    /\ Serve(RedoReq(u, a))

Decide(u, a, ty, res, cm) ==
    /\ Registered(u)
    /\ Serve(DecideReq(u, a, ty, res, cm))

DecideById(u, r, res, cm) ==
    /\ Registered(u)
    /\ Serve(DecideByIdReq(u, r, res, cm))

UpdateReward(u, w, st) ==
    /\ Registered(u)
    /\ Serve(UpdateRewardReq(u, w, st))

\* POST /api/user/register with role admin: the first admin account
register ==
    /\ ~hasAdmin
    /\ hasAdmin' = TRUE
    /\ last' = [op |-> "register", code |-> 200, aid |-> 0, rid |-> 0,
                new |-> None, old |-> None]
    /\ UNCHANGED <<tasks, assignments, reviews, rewards, notifications, procs>>

AssignmentIds == 1..(Len(assignments) + 1)
ReviewIds == 1..(Len(reviews) + 1)
RewardIds == 1..(Len(rewards) + 1)
\* the status a reward update sends: the reward is paid out
RewardUpdates == {"issued"}
\* the two decisions a reviewer sends (the enum also has pending and
\* appealing); every decision comes with the comment "c"
DecideResults == {"approved", "rejected"}

Next ==
    \/ register
    \/ \E u \in Users, t \in TaskIds, c \in Contents : Accept(u, t, c)
    \/ \E u \in Users, a \in AssignmentIds, c \in Contents : Submit(u, a, c)
    \/ \E u \in Users, a \in AssignmentIds : Appeal(u, a)
    \/ \E u \in Users, a \in AssignmentIds : Redo(u, a)
    \/ \E u \in Users, a \in AssignmentIds, ty \in ReviewType,
          res \in DecideResults : Decide(u, a, ty, res, "c")
    \/ \E u \in Users, r \in ReviewIds, res \in DecideResults \cup {None} :
          DecideById(u, r, res, "c")
    \/ \E u \in Users, w \in RewardIds, st \in RewardUpdates :
          UpdateReward(u, w, st)

Spec == Init /\ [][Next]_vars

\* ------------------------ SpecApi: Spec and the two direct status routes
UpdateProgressReq(u, a, st) ==
    [Request("update_progress", u) EXCEPT !.aid = a, !.new = st]

AcceptTaskApiReq(u, t) == [Request("accept_task_api", u) EXCEPT !.tid = t]

UpdateProgress(u, a, st) ==
    /\ Registered(u)
    /\ Serve(UpdateProgressReq(u, a, st))

AcceptTaskApi(u, t) ==
    /\ Registered(u)
    /\ Serve(AcceptTaskApiReq(u, t))

\* the status a progress update sends: the worker reports the work done
ProgressUpdates == {"task_completed"}

NextApi ==
    \/ Next
    \/ \E u \in Users, a \in AssignmentIds, st \in ProgressUpdates :
          UpdateProgress(u, a, st)
    \/ \E u \in Users, t \in TaskIds : AcceptTaskApi(u, t)

SpecApi == Init /\ [][NextApi]_vars

\* --------------------------------------- SpecConc: two requests in flight
\* FastAPI runs the handlers (plain def) on a thread pool, each with its
\* own session; every crud helper ends with db.commit().  A request in
\* flight advances by one committed write at a time.  Handlers that are
\* one step long, and every request sent while none is in flight, are
\* served whole.  A behaviour has one such episode: it ends when the
\* responses are out.
Procs == {1, 2}

Quiet == \A p \in Procs : procs[p].pc = "idle"

\* the requests that can be in flight: an Accept by anyone, a Decide by
\* the task's publisher (who decides shows in reviewer_id only)
StartRequests ==
    {AcceptReq(u, t, None) : u \in Users \cup {W2}, t \in TaskIds}
    \cup {DecideReq(u, a, ty, res, "c") :
             u \in {Pub}, a \in 1..Len(assignments), ty \in ReviewType,
             res \in DecideResults}
    \cup {DecideByIdReq(u, r, res, "c") :
             u \in {Pub}, r \in 1..Len(reviews), res \in DecideResults}

\* the handler starts: its first reads and checks.  A request they
\* reject ends there and has written nothing; request 2 is the one that
\* arrives while request 1 is in flight.
Start(p, pr) ==
    /\ procs[p].pc = "idle"
    /\ IF p = 1 THEN procs[2].pc = "idle" ELSE procs[1].pc # "idle"
    /\ Registered(pr.user)
    /\ LET s == Step(DB, pr)
       IN /\ s.pr.pc # "done"
          /\ procs' = [procs EXCEPT ![p] = s.pr]
    /\ UNCHANGED <<hasAdmin, tasks, assignments, reviews, rewards,
                   notifications, last>>

\* the next crud call of a request in flight, with its commit
StepProc(p) ==
    /\ procs[p].pc \notin {"idle", "done"}
    /\ LET s == Step(DB, procs[p])
       IN /\ Commit(s.db)
          /\ procs' = [procs EXCEPT ![p] = s.pr]
    /\ UNCHANGED <<hasAdmin, last>>

NextConc ==
    \/ Quiet /\ Next
    \/ \E p \in Procs, pr \in StartRequests : Start(p, pr)
    \/ \E p \in Procs : StepProc(p)

SpecConc == Init /\ [][NextConc]_vars

TypeOK ==
    /\ hasAdmin \in BOOLEAN
    /\ \A t \in DOMAIN tasks : tasks[t].status \in TaskStatus
    /\ \A i \in 1..Len(assignments) :
          /\ assignments[i].status \in AssignmentStatus
          /\ assignments[i].submit_content \in Contents
    /\ \A i \in 1..Len(reviews) :
          /\ reviews[i].review_type \in ReviewType
          /\ reviews[i].review_result \in ReviewResult
    /\ \A i \in 1..Len(rewards) : rewards[i].status \in RewardStatus

\* ============================================================== claims
\* registered users who may decide reviews of task t
Reviewers(t) == {u \in Users : Registered(u) /\ may_review(DB, u, t)}

PendingReviews(D, a, ty) ==
    {i \in 1..Len(D.reviews) :
        /\ D.reviews[i].assignment_id = a
        /\ D.reviews[i].review_type = ty
        /\ D.reviews[i].review_result = "pending"}

\* the last request was a Decide that gave result res to a Review of type
\* ty that was pending
DecidedPending(ty, res) ==
    /\ last.op \in {"submit_review", "update_review"}
    /\ last.code = 200
    /\ last.old = "pending" /\ last.new = res
    /\ last.rid \in 1..Len(reviews)
    /\ reviews[last.rid].review_type = ty
    /\ reviews[last.rid].assignment_id = last.aid

RewardsOf(D, a) == {i \in 1..Len(D.rewards) : D.rewards[i].assignment_id = a}

\* C1: for every assignment and review type at most one Review is pending
C1_OnePendingReviewPerType ==
    \A a \in 1..Len(assignments), ty \in ReviewType :
        Cardinality(PendingReviews(DB, a, ty)) <= 1

\* C2: Accept(T, U) creates a task_pending Assignment and succeeds exactly
\* when T exists and is open, (T, U) has no Assignment and U is not the
\* publisher; otherwise it answers 404 (no task), 400 (not open) or
\* 409 (self-accept) and writes nothing
AcceptAllowed(t, u) ==
    /\ t \in DOMAIN tasks
    /\ tasks[t].status = "open"
    /\ existing_assignment(DB, t, u) = 0
    /\ tasks[t].publisher_id # u

C2_AcceptIffPreconditions ==
    \A u \in Users, t \in TaskIds, c \in Contents :
        Registered(u) =>
          LET r == Run(DB, AcceptReq(u, t, c))
          IN IF AcceptAllowed(t, u)
             THEN /\ r.pr.code = 200
                  /\ Len(r.db.assignments) = Len(assignments) + 1
                  /\ LET n == r.db.assignments[Len(r.db.assignments)]
                     IN n.task_id = t /\ n.user_id = u
                        /\ n.status = "task_pending"
             ELSE /\ r.db = DB
                  /\ t \notin DOMAIN tasks => r.pr.code = 404
                  /\ (t \in DOMAIN tasks /\ tasks[t].status # "open")
                        => r.pr.code = 400
                  /\ (t \in DOMAIN tasks /\ tasks[t].status = "open"
                      /\ tasks[t].publisher_id = u) => r.pr.code = 409

\* C3: Submit by the owner against an assignment that is not in
\* task_receive changes neither its status nor its submit_content and
\* creates no Review
C3_SubmitOnlyFromTaskReceive ==
    \A a \in 1..Len(assignments), c \in Contents :
        assignments[a].status # "task_receive" =>
          LET r == Run(DB, SubmitReq(assignments[a].user_id, a, c))
          IN r.db.assignments[a] = assignments[a] /\ r.db.reviews = reviews

\* C4: approving the pending submission_review of an assignment in
\* assignment_submission_pending with content completes Assignment and
\* Task and, when the assignment has no Reward, creates one pending Reward
\* of the task's amount
C4_SubmissionApproved ==
    \A a \in 1..Len(assignments) :
      LET asg == assignments[a]
          t == asg.task_id
          p == get_pending_review(DB, a, "submission_review")
      IN (asg.status = "assignment_submission_pending"
          /\ asg.submit_content # None /\ p # 0) =>
           \A u \in Reviewers(t), cm \in Comments :
             \A pr \in {DecideReq(u, a, "submission_review", "approved", cm),
                        DecideByIdReq(u, p, "approved", cm)} :
               LET r == Run(DB, pr)
               IN /\ r.pr.code = 200
                  /\ r.db.assignments[a].status = "task_completed"
                  /\ r.db.tasks[t].status = "completed"
                  /\ RewardsOf(DB, a) = {} =>
                       r.db.rewards = Append(rewards,
                          [assignment_id |-> a,
                           amount |-> tasks[t].reward_amount,
                           status |-> "pending"])

C4_Witness ==
    /\ last.op \in {"submit_review", "update_review"}
    /\ last.code = 200
    /\ \E a \in 1..Len(assignments) :
         /\ assignments[a].status = "task_completed"
         /\ tasks[assignments[a].task_id].status = "completed"
         /\ \E w \in RewardsOf(DB, a) :
              rewards[w].amount = TaskReward /\ rewards[w].status = "pending"
         /\ last.aid = a
         /\ DecidedPending("submission_review", "approved")

\* C5: each assignment has at most one Reward, and approving the
\* submission_review of an assignment that already has a Reward (through
\* either entry point) adds no Reward and keeps the Reward's amount
C5_OneRewardPerAssignment ==
    /\ \A a \in 1..Len(assignments) : Cardinality(RewardsOf(DB, a)) <= 1
    /\ \A a \in 1..Len(assignments) :
         RewardsOf(DB, a) # {} =>
           \A u \in Users, cm \in Comments :
             \A pr \in {DecideReq(u, a, "submission_review", "approved", cm)}
                       \cup {DecideByIdReq(u, i, "approved", cm) :
                               i \in {j \in 1..Len(reviews) :
                                        /\ reviews[j].assignment_id = a
                                        /\ reviews[j].review_type
                                             = "submission_review"}} :
               LET r == Run(DB, pr)
               IN /\ Len(r.db.rewards) = Len(rewards)
                  /\ \A w \in 1..Len(rewards) :
                       r.db.rewards[w].amount = rewards[w].amount

\* a submission approval was repeated on an assignment that has its Reward
C5_Witness ==
    /\ last.op = "update_review" /\ last.code = 200
    /\ last.old = "approved" /\ last.new = "approved"
    /\ \A i \in 1..Len(reviews) :
         reviews[i].assignment_id = last.aid
            => reviews[i].review_type = "submission_review"
    /\ assignments[last.aid].status = "task_completed"
    /\ Cardinality(RewardsOf(DB, last.aid)) = 1

\* C6: a Decide on an acceptance_review or submission_review that is no
\* longer pending changes no Task, Assignment or Reward
DecidedReviews(ty) ==
    {i \in 1..Len(reviews) :
        reviews[i].review_type = ty /\ reviews[i].review_result # "pending"}

C6_DecidedReviewIsFinal ==
    \A ty \in {"acceptance_review", "submission_review"} :
      \A i \in DecidedReviews(ty) :
        \A u \in Users, res \in {"approved", "rejected"}, cm \in Comments :
          LET a == reviews[i].assignment_id
              byId == Run(DB, DecideByIdReq(u, i, res, cm))
              byPair == Run(DB, DecideReq(u, a, ty, res, cm))
              Same(r) == /\ r.db.tasks = tasks
                         /\ r.db.assignments = assignments
                         /\ r.db.rewards = rewards
          IN /\ Same(byId)
             /\ PendingReviews(DB, a, ty) = {} => Same(byPair)

\* ------------------------------------------------- concurrency (SpecConc)
DecideOps == {"submit_review", "update_review"}

\* C7: of two Decide calls in flight together on the same pending Review
\* with different results exactly one is applied: they do not both succeed
C7_ConcurrentDecidesSerialize ==
    (/\ \A p \in Procs : /\ procs[p].pc = "done"
                         /\ procs[p].op \in DecideOps
                         /\ procs[p].old = "pending"
     /\ procs[1].aid = procs[2].aid
     /\ procs[1].rtype = procs[2].rtype
     /\ procs[1].new # procs[2].new)
        => ~(procs[1].code = 200 /\ procs[2].code = 200)

\* C8: at most one Assignment per (task_id, user_id), also when two
\* Accepts of the same pair are in flight together
C8_OneAssignmentPerPair ==
    \A i, j \in 1..Len(assignments) :
        (assignments[i].task_id = assignments[j].task_id
         /\ assignments[i].user_id = assignments[j].user_id) => i = j

\* C9: a Decide call is atomic: none of its writes is in the database
\* before the step that ends it
C9_DecideAtomic ==
    [][\A p \in Procs :
         (/\ procs[p].op \in DecideOps
          /\ procs'[p] # procs[p]
          /\ procs'[p].pc # "done") => DB' = DB]_vars

\* C10: deciding the pending acceptance_review of a task_pending assignment
\* without content: approved gives task_receive and moves an open Task to
\* in_progress (any other Task status stays); rejected gives
\* task_receivement_rejected and an open Task; the pending Review takes
\* the result
C10_AcceptanceDecided ==
    \A a \in 1..Len(assignments) :
      LET asg == assignments[a]
          t == asg.task_id
          p == get_pending_review(DB, a, "acceptance_review")
      IN (asg.status = "task_pending" /\ asg.submit_content = None /\ p # 0) =>
           \A u \in Reviewers(t), cm \in Comments,
              res \in {"approved", "rejected"} :
             \A pr \in {DecideReq(u, a, "acceptance_review", res, cm),
                        DecideByIdReq(u, p, res, cm)} :
               LET r == Run(DB, pr)
               IN /\ r.pr.code = 200
                  /\ r.db.reviews[p].review_result = res
                  /\ res = "approved" =>
                       /\ r.db.assignments[a].status = "task_receive"
                       /\ r.db.tasks[t].status =
                            IF tasks[t].status = "open" THEN "in_progress"
                            ELSE tasks[t].status
                  /\ res = "rejected" =>
                       /\ r.db.assignments[a].status
                            = "task_receivement_rejected"
                       /\ r.db.tasks[t].status = "open"

\* an acceptance was approved while the Task was not open and kept its status
C10_Witness ==
    /\ last.op \in {"submit_review", "update_review"}
    /\ last.code = 200
    /\ \E a \in 1..Len(assignments) :
         /\ assignments[a].status = "task_receive"
         /\ assignments[a].submit_content = None
         /\ tasks[assignments[a].task_id].status = "completed"
         /\ last.aid = a
         /\ DecidedPending("acceptance_review", "approved")

\* C11: after the approval of one assignment's pending acceptance_review no
\* other assignment of the task has a pending acceptance_review left
C11_OtherAcceptanceReviewsRejected ==
    \A a \in 1..Len(assignments) :
      LET asg == assignments[a]
          t == asg.task_id
          p == get_pending_review(DB, a, "acceptance_review")
      IN (asg.status = "task_pending" /\ asg.submit_content = None /\ p # 0) =>
           \A u \in Reviewers(t) :
             \A pr \in {DecideReq(u, a, "acceptance_review", "approved", "c"),
                        DecideByIdReq(u, p, "approved", "c")} :
               LET r == Run(DB, pr)
               IN r.pr.code = 200 =>
                    \A b \in 1..Len(assignments) :
                      (b # a /\ assignments[b].task_id = t) =>
                        PendingReviews(r.db, b, "acceptance_review") = {}

\* C12: rejecting the pending submission_review of an assignment in
\* assignment_submission_pending with content gives task_reject, moves a
\* completed Task to in_progress, keeps any other Task status and creates
\* no Reward
C12_SubmissionRejected ==
    \A a \in 1..Len(assignments) :
      LET asg == assignments[a]
          t == asg.task_id
          p == get_pending_review(DB, a, "submission_review")
      IN (asg.status = "assignment_submission_pending"
          /\ asg.submit_content # None /\ p # 0) =>
           \A u \in Reviewers(t), cm \in Comments :
             \A pr \in {DecideReq(u, a, "submission_review", "rejected", cm),
                        DecideByIdReq(u, p, "rejected", cm)} :
               LET r == Run(DB, pr)
               IN /\ r.pr.code = 200
                  /\ r.db.assignments[a].status = "task_reject"
                  /\ r.db.tasks[t].status =
                       IF tasks[t].status = "completed" THEN "in_progress"
                       ELSE tasks[t].status
                  /\ r.db.rewards = rewards

\* a submission was rejected while the Task was completed
C12_Witness ==
    /\ last.op \in {"submit_review", "update_review"}
    /\ last.code = 200 /\ last.old = "pending" /\ last.new = "rejected"
    /\ assignments[last.aid].status = "task_reject"
    /\ tasks[assignments[last.aid].task_id].status = "in_progress"
    /\ RewardsOf(DB, last.aid) # {}
    /\ DecidedPending("submission_review", "rejected")

\* the two ways of approving or rejecting the pending appeal_review p of
\* assignment a
AppealDecisions(u, a, p, res) ==
    {DecideReq(u, a, "appeal_review", res, "c"), DecideByIdReq(u, p, res, "c")}

\* C13: approving the pending appeal of an appealing assignment whose Task
\* is in_progress (the appeal against a rejected submission) completes Task
\* and Assignment and leaves the assignment with an issued Reward
C13_AppealApprovedAfterReject ==
    \A a \in 1..Len(assignments) :
      LET asg == assignments[a]
          t == asg.task_id
          p == get_pending_review(DB, a, "appeal_review")
      IN (asg.status = "appealing" /\ tasks[t].status = "in_progress"
          /\ p # 0) =>
           \A u \in Reviewers(t) :
             \A pr \in AppealDecisions(u, a, p, "approved") :
               LET r == Run(DB, pr)
               IN /\ r.pr.code = 200
                  /\ r.db.tasks[t].status = "completed"
                  /\ r.db.assignments[a].status = "task_completed"
                  /\ \E w \in RewardsOf(r.db, a) :
                       r.db.rewards[w].status = "issued"

\* C14: approving the pending appeal of an appealing assignment whose Task
\* is completed reopens the Task (in_progress), sends the Assignment back
\* to task_receive and puts the assignment's Reward, whatever its status,
\* back to pending
C14_AppealApprovedAfterCompletion ==
    \A a \in 1..Len(assignments) :
      LET asg == assignments[a]
          t == asg.task_id
          p == get_pending_review(DB, a, "appeal_review")
      IN (asg.status = "appealing" /\ tasks[t].status = "completed"
          /\ p # 0) =>
           \A u \in Reviewers(t) :
             \A pr \in AppealDecisions(u, a, p, "approved") :
               LET r == Run(DB, pr)
               IN /\ r.pr.code = 200
                  /\ r.db.tasks[t].status = "in_progress"
                  /\ r.db.assignments[a].status = "task_receive"
                  /\ \A w \in RewardsOf(r.db, a) :
                       r.db.rewards[w].status = "pending"

\* Task status, Assignment status and Reward statuses of assignment a
Outcome(D, a) ==
    [task |-> D.tasks[D.assignments[a].task_id].status,
     assignment |-> D.assignments[a].status,
     rewards |-> {D.rewards[w].status : w \in RewardsOf(D, a)}]

\* C15: for an assignment in task_completed or task_reject: the worker's
\* Appeal, the approval of that appeal and then the reversal of the same
\* Review to rejected, with nothing in between, give back the Task status,
\* Assignment status and Reward status of before the Appeal
C15_AppealRoundTrip ==
    \A a \in 1..Len(assignments) :
      assignments[a].status \in {"task_completed", "task_reject"} =>
        LET t == assignments[a].task_id
            s1 == Run(DB, AppealReq(assignments[a].user_id, a))
            p == get_pending_review(s1.db, a, "appeal_review")
        IN (s1.pr.code = 200 /\ p # 0) =>
             \A u \in Reviewers(t) :
               \A pr \in AppealDecisions(u, a, p, "approved") :
                 LET s2 == Run(s1.db, pr)
                     s3 == Run(s2.db, DecideByIdReq(u, p, "rejected", "c"))
                 IN (s2.pr.code = 200 /\ s3.pr.code = 200) =>
                      Outcome(s3.db, a) = Outcome(DB, a)

\* C16: rejecting a pending appeal_review of an appealing assignment as its
\* first decision leaves Task and Reward as they are and puts the Assignment
\* back where it was appealed from: task_completed when the Task is
\* completed, task_reject when the Task is in_progress
C16_AppealRejectedFirst ==
    \A a \in 1..Len(assignments) :
      LET asg == assignments[a]  t == asg.task_id
          p == get_pending_review(DB, a, "appeal_review")
      IN (asg.status = "appealing" /\ p # 0) =>
           \A u \in Reviewers(t) : \A pr \in AppealDecisions(u, a, p, "rejected") :
             LET r == Run(DB, pr)
             IN r.pr.code = 200 =>
                  /\ r.db.tasks = tasks
                  /\ r.db.rewards = rewards
                  /\ tasks[t].status = "completed" =>
                       r.db.assignments[a].status = "task_completed"
                  /\ tasks[t].status = "in_progress" =>
                       r.db.assignments[a].status = "task_reject"

\* C17: every successful Decide on the pending appeal_review of an appealing
\* assignment, whatever the Task status reached while appealing, ends in one
\* of the two documented outcomes: Task completed with Assignment
\* task_completed, or Task in_progress with Assignment task_receive
C17_AppealDecisionOutcome ==
    \A a \in 1..Len(assignments) :
      LET asg == assignments[a]  t == asg.task_id
          p == get_pending_review(DB, a, "appeal_review")
      IN (asg.status = "appealing" /\ p # 0) =>
           \A u \in Reviewers(t) : \A res \in DecideResults :
             \A pr \in AppealDecisions(u, a, p, res) :
               LET r == Run(DB, pr)
               IN r.pr.code = 200 =>
                    <<r.db.tasks[t].status, r.db.assignments[a].status>> \in
                      {<<"completed", "task_completed">>, <<"in_progress", "task_receive">>}

\* the assignment status each review type requires of a pending Review
RequiredStatus(ty) ==
    CASE ty = "acceptance_review" -> "task_pending"
      [] ty = "submission_review" -> "assignment_submission_pending"
      [] ty = "appeal_review" -> "appealing"

\* submit_content must be empty for acceptance, non-empty for submission
WrongContent(ty, asg) ==
    \/ ty = "acceptance_review" /\ asg.submit_content # None
    \/ ty = "submission_review" /\ asg.submit_content = None

\* the pending Reviews whose assignment fails the precondition of their type
InvalidPending(D) ==
    {rid \in 1..Len(D.reviews) :
       LET r == D.reviews[rid]  asg == D.assignments[r.assignment_id]
       IN /\ r.review_result = "pending"
          /\ \/ asg.status # RequiredStatus(r.review_type)
             \/ WrongContent(r.review_type, asg)}

\* the two ways of deciding Review rid
DecisionsOf(D, u, rid, res) ==
    {DecideReq(u, D.reviews[rid].assignment_id, D.reviews[rid].review_type, res, "c"),
     DecideByIdReq(u, rid, res, "c")}

\* C18: a Decide by an authorised reviewer on a pending Review whose
\* assignment is not in the status its review type requires, or whose
\* submit_content presence is wrong, answers 400 and changes no Task,
\* Assignment, Review or Reward and creates no Notification
C18_InvalidStateRejected ==
    \A rid \in InvalidPending(DB) :
      \A u \in Reviewers(assignments[reviews[rid].assignment_id].task_id) :
        \A res \in DecideResults : \A pr \in DecisionsOf(DB, u, rid, res) :
          LET r == Run(DB, pr)
          IN r.pr.code = 400 /\ r.db = DB

C18_Witness ==
    \E rid \in InvalidPending(DB) :
      \E u \in Reviewers(assignments[reviews[rid].assignment_id].task_id) :
        \E pr \in DecisionsOf(DB, u, rid, "approved") :
          /\ assignments[reviews[rid].assignment_id].status = "task_receive"
          /\ Run(DB, pr).pr.code = 400

\* the authenticated users who are neither an admin nor the publisher of
\* task t
Outsiders(t) ==
    {u \in Users : /\ Registered(u)
                   /\ UserRole(u) # "admin"
                   /\ tasks[t].publisher_id # u}

\* C19: a Decide, through either entry point, by an actor who is neither an
\* admin nor the publisher of the assignment's task answers 403 and changes
\* no Task, Assignment, Review or Reward and creates no Notification,
\* whatever the review type, the result and the assignment status
C19_OutsiderDecideForbidden ==
    /\ \A a \in 1..Len(assignments) :
         \A u \in Outsiders(assignments[a].task_id) :
           \A ty \in ReviewType, res \in ReviewResult, cm \in Comments :
             LET r == Run(DB, DecideReq(u, a, ty, res, cm))
             IN r.pr.code = 403 /\ r.db = DB
    /\ \A rid \in 1..Len(reviews) :
         \A u \in Outsiders(assignments[reviews[rid].assignment_id].task_id) :
           \A res \in ReviewResult \cup {None}, cm \in Comments :
             LET r == Run(DB, DecideByIdReq(u, rid, res, cm))
             IN r.pr.code = 403 /\ r.db = DB

\* an outsider is refused a decision that a reviewer would be granted
C19_Witness ==
    \E rid \in 1..Len(reviews) :
      LET a == reviews[rid].assignment_id  t == assignments[a].task_id
      IN /\ reviews[rid].review_result = "pending"
         /\ rid \notin InvalidPending(DB)
         /\ \E u \in Outsiders(t), v \in Reviewers(t) :
              \A pr \in DecisionsOf(DB, u, rid, "approved") :
                /\ Run(DB, pr).pr.code = 403
                /\ Run(DB, [pr EXCEPT !.user = v]).pr.code = 200

C21_SubmitEffect ==
    \A a \in AssignmentIds, u \in Users, c \in Contents :
      Registered(u) =>
        LET r == Run(DB, SubmitReq(u, a, c))
            m == Len(reviews) + 1
        IN /\ a > Len(assignments) =>
                r.pr.code = 404 /\ r.db.assignments = assignments
                                /\ r.db.reviews = reviews
           /\ (a <= Len(assignments) /\ assignments[a].user_id # u) =>
                r.pr.code = 403 /\ r.db.assignments = assignments
                                /\ r.db.reviews = reviews
           /\ (a <= Len(assignments) /\ assignments[a].user_id = u
                 /\ assignments[a].status = "task_receive") =>
                /\ r.pr.code = 200
                /\ r.db.assignments =
                     [assignments EXCEPT ![a].submit_content = c,
                        ![a].status = "assignment_submission_pending"]
                /\ Len(r.db.reviews) = m
                /\ SubSeq(r.db.reviews, 1, m - 1) = reviews
                /\ r.db.reviews[m].assignment_id = a
                /\ r.db.reviews[m].review_type = "submission_review"
                /\ r.db.reviews[m].review_result = "pending"

\* C22: Appeal by the owner of an assignment in task_completed or
\* task_reject sets its status to appealing and creates exactly one pending
\* appeal_review; Appeal on a missing assignment answers 404, by another
\* user 403, from any other status 400, each without changing any
\* Assignment or Review
C22_AppealEffect ==
    \A a \in AssignmentIds, u \in Users :
      Registered(u) =>
        LET r == Run(DB, AppealReq(u, a))
            m == Len(reviews) + 1
            same == r.db.assignments = assignments /\ r.db.reviews = reviews
        IN IF a > Len(assignments) THEN r.pr.code = 404 /\ same
           ELSE IF assignments[a].user_id # u THEN r.pr.code = 403 /\ same
           ELSE IF assignments[a].status \notin {"task_completed", "task_reject"}
                THEN r.pr.code = 400 /\ same
           ELSE /\ r.pr.code = 200
                /\ r.db.assignments = [assignments EXCEPT ![a].status = "appealing"]
                /\ Len(r.db.reviews) = m
                /\ SubSeq(r.db.reviews, 1, m - 1) = reviews
                /\ r.db.reviews[m].assignment_id = a
                /\ r.db.reviews[m].review_type = "appeal_review"
                /\ r.db.reviews[m].review_result = "pending"

\* C23: Redo by the owner of an assignment in task_reject sets its status to
\* task_receive, clears submit_content and leaves the Task in_progress; Redo
\* on a missing assignment answers 404, by another user 403, from any other
\* status 400, each without changing any Assignment or Task
C23_RedoEffect ==
    \A a \in AssignmentIds, u \in Users :
      Registered(u) =>
        LET r == Run(DB, RedoReq(u, a))
            same == r.db.assignments = assignments /\ r.db.tasks = tasks
        IN IF a > Len(assignments) THEN r.pr.code = 404 /\ same
           ELSE IF assignments[a].user_id # u THEN r.pr.code = 403 /\ same
           ELSE IF assignments[a].status # "task_reject"
                THEN r.pr.code = 400 /\ same
           ELSE /\ r.pr.code = 200
                /\ r.db.assignments =
                     [assignments EXCEPT ![a].status = "task_receive",
                                         ![a].submit_content = None]
                /\ r.db.tasks =
                     [tasks EXCEPT ![assignments[a].task_id].status = "in_progress"]
                /\ r.db.reviews = reviews
                /\ r.db.rewards = rewards
                /\ r.db.notifications = notifications

\* a Redo has just put an assignment back to work, its submission cleared
C23_Witness ==
    /\ last.op = "redo" /\ last.code = 200
    /\ last.aid \in 1..Len(assignments)
    /\ assignments[last.aid].status = "task_receive"
    /\ assignments[last.aid].submit_content = None
    /\ tasks[assignments[last.aid].task_id].status = "in_progress"

\* Review row rw decided: same assignment and type, the result set to res
DecidedRow(rw, old, res) ==
    /\ rw.assignment_id = old.assignment_id
    /\ rw.review_type = old.review_type
    /\ rw.review_result = res

\* C24: a successful Decide for (assignment, review_type) finalizes a pending
\* Review row of that pair and adds no row; only when the pair has no
\* pending Review does it create one new row, carrying the decided result
C24_DecideFinalizesPending ==
    \A a \in 1..Len(assignments), ty \in ReviewType, res \in DecideResults :
      \A u \in Users :
        Registered(u) =>
          LET r == Run(DB, DecideReq(u, a, ty, res, "c"))
              n == Len(reviews)
              P == PendingReviews(DB, a, ty)
          IN r.pr.code = 200 =>
               IF P # {}
               THEN /\ Len(r.db.reviews) = n
                    /\ \E p \in P :
                         /\ DecidedRow(r.db.reviews[p], reviews[p], res)
                         /\ \A i \in 1..n : i # p => r.db.reviews[i] = reviews[i]
               ELSE /\ Len(r.db.reviews) = n + 1
                    /\ SubSeq(r.db.reviews, 1, n) = reviews
                    /\ r.db.reviews[n + 1].assignment_id = a
                    /\ r.db.reviews[n + 1].review_type = ty
                    /\ r.db.reviews[n + 1].review_result = res

\* a Decide by pair has just finalized the only Review row of its pair
C24_Witness ==
    /\ last.op = "submit_review" /\ last.code = 200 /\ last.old = "pending"
    /\ last.rid \in 1..Len(reviews)
    /\ reviews[last.rid].assignment_id = last.aid
    /\ reviews[last.rid].review_result = last.new
    /\ Cardinality({i \in 1..Len(reviews) :
                      /\ reviews[i].assignment_id = last.aid
                      /\ reviews[i].review_type = reviews[last.rid].review_type}) = 1

\* every Decide request a user can send: by pair for every assignment id and
\* by id for every Review id, missing ones included
AllDecisions(u) ==
    {DecideReq(u, a, ty, res, "c") :
        a \in AssignmentIds, ty \in ReviewType, res \in DecideResults}
    \cup {DecideByIdReq(u, rid, res, "c") :
        rid \in 1..(Len(reviews) + 1), res \in DecideResults \cup {None}}

\* the assignment a Decide request is about, 0 when it names none
DecidedAssignment(pr) ==
    IF pr.op = "submit_review"
    THEN (IF pr.aid \in 1..Len(assignments) THEN pr.aid ELSE 0)
    ELSE (IF pr.rid \in 1..Len(reviews) THEN reviews[pr.rid].assignment_id ELSE 0)

\* C25: a Decide call that changes the status of its Assignment or Task
\* creates exactly one Notification, addressed to the assignment's worker;
\* no Decide call creates more than one, and a Decide call answering 400,
\* 403 or 404 creates none
C25_OneNotificationPerDecide ==
    \A u \in Users :
      Registered(u) =>
        \A pr \in AllDecisions(u) :
          LET r == Run(DB, pr)
              n == Len(notifications)
              a == DecidedAssignment(pr)
          IN /\ r.pr.code \in {200, 400, 403, 404}
             /\ r.pr.code # 200 => r.db.notifications = notifications
             /\ Len(r.db.notifications) \in {n, n + 1}
             /\ SubSeq(r.db.notifications, 1, n) = notifications
             /\ (r.pr.code = 200 /\ a # 0
                   /\ \/ r.db.assignments[a].status # assignments[a].status
                      \/ r.db.tasks[assignments[a].task_id].status
                           # tasks[assignments[a].task_id].status) =>
                  /\ Len(r.db.notifications) = n + 1
                  /\ r.db.notifications[n + 1].user_id = assignments[a].user_id

\* the first decision ever made has left one Notification for the worker
C25_Witness ==
    /\ last.op \in DecideOps /\ last.code = 200 /\ last.old = "pending"
    /\ Cardinality({i \in 1..Len(reviews) : reviews[i].review_result # "pending"}) = 1
    /\ Len(notifications) = 1
    /\ notifications[1].user_id = assignments[last.aid].user_id

\* the operations of the workflow that may move an Assignment
WorkflowOps == {"accept", "submit", "appeal", "redo"} \cup DecideOps

\* C26: the status of an Assignment changes only as the effect of a
\* successful Accept, Submit, Decide, Appeal or Redo; no other operation
\* open to the worker changes it
C26_AssignmentStatusByWorkflowOnly ==
    [][\A a \in 1..Len(assignments) :
         assignments'[a].status # assignments[a].status =>
           last'.op \in WorkflowOps /\ last'.code = 200]_vars

\* C27: the status of a Task changes only as a side effect of a successful
\* Decide; no call made by a worker changes it
C27_TaskStatusByDecideOnly ==
    [][\A t \in DOMAIN tasks :
         tasks'[t].status # tasks[t].status =>
           last'.op \in DecideOps /\ last'.code = 200]_vars

\* C28: in every reachable state an Accept(T, U) by a user who already holds
\* an Assignment for T answers 409 and creates no Assignment and no Review
C28_RepeatedAcceptConflict ==
    \A u \in Users, t \in TaskIds, c \in Contents :
      (Registered(u) /\ \E i \in 1..Len(assignments) :
           assignments[i].task_id = t /\ assignments[i].user_id = u) =>
        LET r == Run(DB, AcceptReq(u, t, c))
        IN /\ r.pr.code = 409
           /\ r.db.assignments = assignments
           /\ r.db.reviews = reviews

\* C29: two Accepts in flight together, by two different users eligible for
\* the same open task, both answer 200 under every interleaving of their
\* steps and leave two distinct Assignments in task_pending, each with its
\* own pending acceptance_review
C29_ConcurrentAcceptsBothSucceed ==
    (/\ \A p \in Procs : procs[p].pc = "done" /\ procs[p].op = "accept"
     /\ procs[1].user # procs[2].user
     /\ procs[1].tid = procs[2].tid)
        => /\ procs[1].aid # procs[2].aid
           /\ \A p \in Procs :
                /\ procs[p].code = 200
                /\ procs[p].aid \in 1..Len(assignments)
                /\ assignments[procs[p].aid].user_id = procs[p].user
                /\ assignments[procs[p].aid].status = "task_pending"
                /\ Cardinality(PendingReviews(DB, procs[p].aid,
                                              "acceptance_review")) = 1

\* the entity a step wrote, by its place in the documented order:
\* 1 Assignment, 2 Task, 3 Reward, 4 Notification
Written(D, E) ==
    IF E.assignments # D.assignments THEN <<1>>
    ELSE IF E.tasks # D.tasks THEN <<2>>
    ELSE IF E.rewards # D.rewards THEN <<3>>
    ELSE IF E.notifications # D.notifications THEN <<4>>
    ELSE <<>>

\* the entities a request writes, in the order of its steps
RECURSIVE Writes(_, _)
Writes(D, pr) ==
    IF pr.pc = "done" THEN <<>>
    ELSE LET s == Step(D, pr)
         IN Written(D, s.db) \o Writes(s.db, s.pr)

\* C30: within every Decide call the writes come in the order Assignment,
\* Task, Reward, Notification, whatever the review type
C30_DecideWriteOrder ==
    \A u \in Users :
      Registered(u) =>
        \A pr \in AllDecisions(u) :
          LET w == Writes(DB, pr)
          IN \A i, j \in 1..Len(w) : i < j => w[i] <= w[j]

\* the Review rows a request added
NewReviews(D, E) == {E.reviews[i] : i \in (Len(D.reviews) + 1)..Len(E.reviews)}

\* the requests by which worker u files something for review
WorkerFilings(u) ==
    {AcceptReq(u, t, c) : t \in TaskIds, c \in Contents}
    \cup {SubmitReq(u, a, c) : a \in 1..Len(assignments), c \in Contents}
    \cup {AppealReq(u, a) : a \in 1..Len(assignments)}

\* C31: the pending Review created by Accept, Submit or Appeal is addressed
\* to a designated reviewer: its reviewer_id is the task's publisher or an
\* admin, never the worker who sent the request
C31_PendingReviewAddressedToReviewer ==
    \A u \in Users :
      Registered(u) =>
        \A pr \in WorkerFilings(u) :
          LET r == Run(DB, pr)
          IN r.pr.code = 200 =>
               \A rw \in NewReviews(DB, r.db) :
                 LET t == r.db.assignments[rw.assignment_id].task_id
                 IN /\ rw.reviewer_id # u
                    /\ \/ rw.reviewer_id = tasks[t].publisher_id
                       \/ UserRole(rw.reviewer_id) = "admin"

\* the decided appeal_review rows
DecidedAppeals(D) ==
    {rid \in 1..Len(D.reviews) :
       /\ D.reviews[rid].review_type = "appeal_review"
       /\ D.reviews[rid].review_result \in DecideResults}

\* C32: deciding an already decided appeal_review again with the result it
\* has changes no Task, Assignment or Reward and creates no Notification
C32_SameResultIsNoOp ==
    \A rid \in DecidedAppeals(DB), u \in Users, cm \in Comments :
      Registered(u) =>
        LET r == Run(DB, DecideByIdReq(u, rid, reviews[rid].review_result, cm))
        IN /\ r.db.tasks = tasks
           /\ r.db.assignments = assignments
           /\ r.db.rewards = rewards
           /\ r.db.notifications = notifications

\* a decided appeal_review has just been given its own result again
C32_Witness ==
    /\ last.op = "update_review" /\ last.code = 200
    /\ last.old = last.new /\ last.new \in DecideResults
    /\ last.rid \in DecidedAppeals(DB)

\* C33: an assignment is task_completed, or has a Reward, only if an
\* acceptance_review of that assignment was approved
C33_CompletionNeedsApprovedAcceptance ==
    \A a \in 1..Len(assignments) :
      (assignments[a].status = "task_completed" \/ RewardsOf(DB, a) # {}) =>
        \E i \in 1..Len(reviews) :
          /\ reviews[i].assignment_id = a
          /\ reviews[i].review_type = "acceptance_review"
          /\ reviews[i].review_result = "approved"

\* the statuses of an assignment whose acceptance was granted
AcceptedStatus ==
    {"task_receive", "assignment_submission_pending", "task_completed",
     "task_reject", "appealing"}

\* C34: in every reachable state at most one Assignment of a task is in an
\* accepted status
C34_OneAcceptedAssignmentPerTask ==
    \A i, j \in 1..Len(assignments) :
      (/\ assignments[i].task_id = assignments[j].task_id
       /\ assignments[i].status \in AcceptedStatus
       /\ assignments[j].status \in AcceptedStatus) => i = j

\* C35: in every reachable state an Assignment in task_completed belongs to
\* a Task in completed
C35_CompletedAssignmentCompletedTask ==
    \A a \in 1..Len(assignments) :
      assignments[a].status = "task_completed" =>
        tasks[assignments[a].task_id].status = "completed"

\* the pending acceptance and submission Reviews whose assignment is in the
\* waiting status of their type
WaitingReviews(D) ==
    {rid \in 1..Len(D.reviews) :
       LET r == D.reviews[rid]
       IN /\ r.review_result = "pending"
          /\ r.review_type \in {"acceptance_review", "submission_review"}
          /\ D.assignments[r.assignment_id].status = RequiredStatus(r.review_type)}

\* C36: every pending acceptance_review of a task_pending assignment and
\* every pending submission_review of an assignment_submission_pending
\* assignment, however the Accept or Submit was made, can be decided by an
\* admin, approved as well as rejected
C36_WaitingReviewCanBeDecided ==
    hasAdmin =>
      \A rid \in WaitingReviews(DB), res \in DecideResults :
        \A pr \in DecisionsOf(DB, Admin, rid, res) :
          Run(DB, pr).pr.code = 200

\* the decided Review rows
DecidedRows(D) ==
    {rid \in 1..Len(D.reviews) : D.reviews[rid].review_result \in DecideResults}

\* C37: an update of a decided Review that gives a comment and no
\* review_result changes only that Review's comment: every Task and
\* Assignment, the Rewards and the Notifications are as before
C37_CommentOnlyUpdate ==
    \A rid \in DecidedRows(DB), u \in Users :
      Registered(u) =>
        LET r == Run(DB, DecideByIdReq(u, rid, None, "c"))
        IN /\ r.db.tasks = tasks
           /\ r.db.assignments = assignments
           /\ r.db.rewards = rewards
           /\ r.db.notifications = notifications
           /\ Len(r.db.reviews) = Len(reviews)
           /\ \A i \in 1..Len(reviews) :
                r.db.reviews[i] =
                  IF i = rid /\ r.pr.code = 200
                  THEN [reviews[i] EXCEPT !.review_comment = "c"]
                  ELSE reviews[i]

\* C38: no successful Decide is made by the worker of the assignment under
\* review, whatever the actor's role
C38_NoSelfReview ==
    \A u \in Users :
      Registered(u) =>
        \A pr \in AllDecisions(u) :
          LET a == DecidedAssignment(pr)
          IN (a # 0 /\ assignments[a].user_id = u) => Run(DB, pr).pr.code # 200

\* two Decides on the pending acceptance reviews of two different applicants
\* for one task were in flight together, at least one of them an approval,
\* and both have answered
TwoAcceptanceDecidesDone ==
    /\ \A p \in Procs : /\ procs[p].pc = "done"
                        /\ procs[p].op \in DecideOps
                        /\ procs[p].rtype = "acceptance_review"
                        /\ procs[p].old = "pending"
    /\ procs[1].aid # procs[2].aid
    /\ procs[1].tid = procs[2].tid
    /\ \E p \in Procs : procs[p].new = "approved"

\* C39: concurrent Decides on the pending acceptance reviews of two
\* applicants for one task, approve/approve or approve/reject, end as some
\* serial order would: at most one applicant is in task_receive, and the
\* Task is not open while an applicant is in task_receive
C39_ConcurrentAcceptanceDecides ==
    TwoAcceptanceDecidesDone =>
      LET got == {p \in Procs : assignments[procs[p].aid].status = "task_receive"}
      IN /\ Cardinality(got) <= 1
         /\ got # {} => tasks[procs[1].tid].status # "open"

\* C40: two submission_review approvals of the same assignment in flight
\* together leave, under every interleaving, at most one Reward for it
C40_ConcurrentApprovalsOneReward ==
    (/\ \A p \in Procs : /\ procs[p].pc = "done"
                         /\ procs[p].op \in DecideOps
                         /\ procs[p].rtype = "submission_review"
                         /\ procs[p].new = "approved"
     /\ procs[1].aid = procs[2].aid)
        => Cardinality(RewardsOf(DB, procs[1].aid)) <= 1

====
